---------------------------- MODULE Spec2Model ----------------------------
(***************************************************************************)
(* A model of the two React hooks of src/hooks/useStacks.ts:               *)
(*   useStacks   - wallet session: userData, isReady, connect, disconnect  *)
(*   useMultisig - vault state: vault, isLoading, error, fetchVault and    *)
(*                 the read-only queries over the active vault.            *)
(*                                                                         *)
(* Conventions.  A JavaScript `string | null` is a string, with NULL       *)
(* standing for null.  An object-or-null (vault, userData) is a record,    *)
(* with the one-field record Null standing for null; `undefined` returned  *)
(* by Array.prototype.find is the record Undefined.  An absent or empty    *)
(* optional string (both falsy in JavaScript) is "".                       *)
(***************************************************************************)
EXTENDS Integers, Sequences, FiniteSets, TLC

VARIABLES
    \* useStacks
    userData,     \* useState<StacksUserData | null>
    isReady,      \* useState(false)
    cancelled,    \* the mount effect's `cancelled` flag (set by its cleanup)
    initPc,       \* position of initializeSession: "start", "awaiting", "done"
    sessPending,  \* userSession.isSignInPending()
    sessData,     \* the user data userSession holds (Null: not signed in)
    connectOpen,  \* a showConnect dialog is open
    signedOut,    \* history: disconnect was called, and no onFinish since
    \* useMultisig
    vault,        \* useState<MultisigVault | null>
    isLoading,    \* useState(false)
    error,        \* useState<string | null>
    \* environment and history
    clock,        \* Date.now()
    ret,          \* the last call made on the hooks: [op, arg, val]
    prev          \* useMultisig's state just before that call

vars == <<userData, isReady, cancelled, initPc, sessPending, sessData,
          connectOpen, signedOut, vault, isLoading, error, clock, ret, prev>>

stacksVars == <<userData, isReady, cancelled, initPc, sessPending, sessData,
                connectOpen, signedOut>>

multisigVars == <<vault, isLoading, error>>

----------------------------------------------------------------------------
(* Bounds of the model *)

\* Date.now() takes the values 0..MaxClock
MaxClock == 2

\* a vault drawn as a query input holds at most MaxTxs transactions
MaxTxs == 2

----------------------------------------------------------------------------
(* Values *)

NULL == "null"

Null == [null |-> TRUE]

Undefined == [undefined |-> TRUE]

\* the three signer addresses of the placeholder vault
SignerA == "SP2RVXN8ZCJQY8ZCJQY8ZCJQY8ZCJQY8ZCJQY8Z"

SignerB == "ST2RVXN8ZCJQY8ZCJQY8ZCJQY8ZCJQY8ZCJQY8Z"

SignerC == "SP3RVXN8ZCJQY8ZCJQY8ZCJQY8ZCJQY8ZCJQY8Z"

\* an address that is no signer of any vault
Outsider == "ST1PQHQKV0RJXZFY1DGX8MNSNYVE3VGZJSRTPGZGM"

\* the five members of the TransactionStatus union
TransactionStatus == {"pending", "signed", "ready-to-execute", "executed", "failed"}

\* arguments fetchVault is called with: the empty string, two vault
\* addresses, and a string that is no Stacks address
MalformedAddress == "not-an-address"

VaultAddresses == {"SP000000000000000000002Q6VF78.vault-1",
                   "SP000000000000000000002Q6VF78.vault-2"}

FetchInputs == {""} \cup VaultAddresses \cup {MalformedAddress}

\* transaction ids the queries are called with; the last is in no vault
TxIdSeq == <<"txn-001", "txn-002", "txn-003", "txn-004">>

TxIds == {TxIdSeq[i] : i \in 1..(MaxTxs + 1)}

\* StacksUserData: stx is whether userData.profile.stxAddress is present
UserOf(stx, testnet, mainnet) ==
    [stx |-> stx, testnet |-> testnet, mainnet |-> mainnet]

Users == {UserOf(FALSE, "", ""), UserOf(TRUE, "", ""),
          UserOf(TRUE, SignerB, ""), UserOf(TRUE, "", SignerA),
          UserOf(TRUE, Outsider, SignerA)}

----------------------------------------------------------------------------
(* useStacks: derived values *)

\* a network that looks at the mainnet address first
networkMainnetFirst ==
    IF userData = Null THEN "disconnected"
    ELSE IF ~userData.stx THEN "disconnected"
    ELSE IF userData.mainnet # "" THEN "mainnet"
    ELSE IF userData.testnet # "" THEN "testnet"
    ELSE "disconnected"

\* const network = useMemo(...)
network ==
    IF userData = Null THEN "disconnected"
    ELSE IF ~userData.stx THEN "disconnected"
    ELSE IF userData.testnet # "" THEN "testnet"
    ELSE IF userData.mainnet # "" THEN "mainnet"
    ELSE "disconnected"

\* isSignedIn: !!userData
isSignedIn == userData # Null

\* an address that prefers mainnet
addressMainnetFirst ==
    IF userData = Null THEN NULL
    ELSE IF ~userData.stx THEN NULL
    ELSE IF userData.mainnet # "" THEN userData.mainnet
    ELSE IF userData.testnet # "" THEN userData.testnet
    ELSE NULL

\* const address = useMemo(...)
address ==
    IF userData = Null THEN NULL
    ELSE IF ~userData.stx THEN NULL
    ELSE IF userData.testnet # "" THEN userData.testnet
    ELSE IF userData.mainnet # "" THEN userData.mainnet
    ELSE NULL

\* useMultisig: const { address: userAddress } = useStacks()
userAddress == address

----------------------------------------------------------------------------
(* useMultisig: the placeholder vault and the queries *)

mockSigners == <<[address |-> SignerA, hasSigned |-> TRUE],
                 [address |-> SignerB, hasSigned |-> FALSE],
                 [address |-> SignerC, hasSigned |-> FALSE]>>

\* a mock whose signature flags follow the clock
mockVaultDataFlaky(vaultAddress, now) ==
    [address |-> vaultAddress,
     signers |-> <<SignerA, SignerB, SignerC>>,
     threshold |-> 2,
     balance |-> "5000000000",
     transactions |-> <<[id |-> "txn-001", type |-> "stx-transfer",
                         amount |-> "1000000", recipient |-> SignerB,
                         txHash |-> "0x1234567890abcdef", status |-> "pending",
                         signers |-> [mockSigners EXCEPT
                                         ![1].hasSigned = (now % 2 = 0)],
                         timestamp |-> now]>>]

\* a mock whose threshold exceeds its signer count
mockVaultDataOverThreshold(vaultAddress, now) ==
    [address |-> vaultAddress,
     signers |-> <<SignerA, SignerB, SignerC>>,
     threshold |-> 4,
     balance |-> "5000000000",
     transactions |-> <<[id |-> "txn-001", type |-> "stx-transfer",
                         amount |-> "1000000", recipient |-> SignerB,
                         txHash |-> "0x1234567890abcdef", status |-> "pending",
                         signers |-> mockSigners, timestamp |-> now]>>]

\* a mock whose transaction leaves the third signer out of its snapshot
mockVaultDataShortSnapshot(vaultAddress, now) ==
    [address |-> vaultAddress,
     signers |-> <<SignerA, SignerB, SignerC>>,
     threshold |-> 2,
     balance |-> "5000000000",
     transactions |-> <<[id |-> "txn-001", type |-> "stx-transfer",
                         amount |-> "1000000", recipient |-> SignerB,
                         txHash |-> "0x1234567890abcdef", status |-> "pending",
                         signers |-> SubSeq(mockSigners, 1, 2),
                         timestamp |-> now]>>]

\* const mockVaultData: MultisigVault = {...}, with Date.now() = now
mockVaultData(vaultAddress, now) ==
    [address |-> vaultAddress,
     signers |-> <<SignerA, SignerB, SignerC>>,
     threshold |-> 2,
     balance |-> "5000000000",
     transactions |-> <<[id |-> "txn-001", type |-> "stx-transfer",
                         amount |-> "1000000", recipient |-> SignerB,
                         txHash |-> "0x1234567890abcdef", status |-> "pending",
                         signers |-> mockSigners, timestamp |-> now]>>]

\* Array.prototype.find((tx) => tx.id === txId)
RECURSIVE FindTx(_, _)
FindTx(txs, txId) ==
    IF txs = <<>> THEN Undefined
    ELSE IF Head(txs).id = txId THEN Head(txs)
    ELSE FindTx(Tail(txs), txId)

\* Array.prototype.find((s) => s.address === addr)
RECURSIVE FindSigner(_, _)
FindSigner(signers, addr) ==
    IF signers = <<>> THEN Undefined
    ELSE IF Head(signers).address = addr THEN Head(signers)
    ELSE FindSigner(Tail(signers), addr)

\* Array.prototype.filter((signer) => signer.hasSigned)
RECURSIVE FilterSigned(_)
FilterSigned(signers) ==
    IF signers = <<>> THEN <<>>
    ELSE IF Head(signers).hasSigned
         THEN <<Head(signers)>> \o FilterSigned(Tail(signers))
         ELSE FilterSigned(Tail(signers))

\* Array.prototype.filter((tx) => tx.status !== "executed")
RECURSIVE FilterNotExecuted(_)
FilterNotExecuted(txs) ==
    IF txs = <<>> THEN <<>>
    ELSE IF Head(txs).status # "executed"
         THEN <<Head(txs)>> \o FilterNotExecuted(Tail(txs))
         ELSE FilterNotExecuted(Tail(txs))

\* a filter that keeps only status === "pending"
RECURSIVE FilterOnlyPending(_)
FilterOnlyPending(txs) ==
    IF txs = <<>> THEN <<>>
    ELSE IF Head(txs).status = "pending"
         THEN <<Head(txs)>> \o FilterOnlyPending(Tail(txs))
         ELSE FilterOnlyPending(Tail(txs))

\* Array.prototype.filter((tx) => tx.status === "executed")
RECURSIVE FilterExecuted(_)
FilterExecuted(txs) ==
    IF txs = <<>> THEN <<>>
    ELSE IF Head(txs).status = "executed"
         THEN <<Head(txs)>> \o FilterExecuted(Tail(txs))
         ELSE FilterExecuted(Tail(txs))

\* Array.prototype.includes
Includes(seq, x) == \E i \in 1..Len(seq) : seq[i] = x

\* a signer check that takes any connected identity for a signer
isSignerAnyUser ==
    IF vault = Null \/ userAddress = NULL THEN FALSE
    ELSE TRUE

isSigner ==
    IF vault = Null \/ userAddress = NULL THEN FALSE
    ELSE Includes(vault.signers, userAddress)

\* a lookup that falls back to the first transaction
getTransactionOrFirst(txId) ==
    IF vault = Null THEN Undefined
    ELSE IF FindTx(vault.transactions, txId) # Undefined
         THEN FindTx(vault.transactions, txId)
    ELSE IF vault.transactions # <<>> THEN vault.transactions[1]
    ELSE Undefined

getTransaction(txId) ==
    IF vault = Null THEN Undefined ELSE FindTx(vault.transactions, txId)

getSignatureCount(txId) ==
    LET tx == getTransaction(txId)
    IN  IF tx = Undefined THEN 0 ELSE Len(FilterSigned(tx.signers))

\* readiness with a strict comparison
isReadyToExecuteStrict(txId) ==
    IF vault = Null THEN FALSE
    ELSE getSignatureCount(txId) > vault.threshold

isReadyToExecute(txId) ==
    IF vault = Null THEN FALSE
    ELSE getSignatureCount(txId) >= vault.threshold

\* the pending list taken as status === "pending"
getPendingTransactionsOnlyPending ==
    IF vault = Null THEN <<>> ELSE FilterOnlyPending(vault.transactions)

getPendingTransactions ==
    IF vault = Null THEN <<>> ELSE FilterNotExecuted(vault.transactions)

\* a filter that takes every terminal status for executed
RECURSIVE FilterTerminal(_)
FilterTerminal(txs) ==
    IF txs = <<>> THEN <<>>
    ELSE IF Head(txs).status \in {"executed", "failed"}
         THEN <<Head(txs)>> \o FilterTerminal(Tail(txs))
         ELSE FilterTerminal(Tail(txs))

\* the executed list taken as every terminal transaction
getExecutedTransactionsTerminal ==
    IF vault = Null THEN <<>> ELSE FilterTerminal(vault.transactions)

getExecutedTransactions ==
    IF vault = Null THEN <<>> ELSE FilterExecuted(vault.transactions)

\* a check that takes membership of the snapshot for a signature
hasUserSignedAnyMember(txId) ==
    IF userAddress = NULL THEN FALSE
    ELSE LET tx == getTransaction(txId)
         IN  IF tx = Undefined THEN FALSE
             ELSE FindSigner(tx.signers, userAddress) # Undefined

hasUserSigned(txId) ==
    IF userAddress = NULL THEN FALSE
    ELSE LET tx == getTransaction(txId)
         IN  IF tx = Undefined THEN FALSE
             ELSE LET signer == FindSigner(tx.signers, userAddress)
                  IN  IF signer = Undefined THEN FALSE ELSE signer.hasSigned

----------------------------------------------------------------------------
(* History *)

NoCall == [op |-> "none", arg |-> "", val |-> ""]

Call(op, arg, val) == [op |-> op, arg |-> arg, val |-> val]

Before == [vault |-> vault, isLoading |-> isLoading, error |-> error]

----------------------------------------------------------------------------
(* useMultisig: operations *)

\* a fetch that forgets setError(null)
fetchVaultKeepsError(vaultAddress) ==
    /\ ~cancelled
    /\ prev' = Before
    /\ IF vaultAddress = ""
       THEN /\ error' = "Vault address is required"
            /\ UNCHANGED <<vault, isLoading>>
            /\ ret' = Call("fetchVault", vaultAddress, "rejected")
       ELSE /\ isLoading' = FALSE
            /\ error' = error
            /\ vault' = mockVaultData(vaultAddress, clock)
            /\ ret' = Call("fetchVault", vaultAddress, "done")
    /\ UNCHANGED <<stacksVars, clock>>

\* a fetch that drops the vault when the address is empty
fetchVaultClearsVault(vaultAddress) ==
    /\ ~cancelled
    /\ prev' = Before
    /\ IF vaultAddress = ""
       THEN /\ error' = "Vault address is required"
            /\ vault' = Null
            /\ UNCHANGED isLoading
            /\ ret' = Call("fetchVault", vaultAddress, "rejected")
       ELSE /\ isLoading' = FALSE
            /\ error' = NULL
            /\ vault' = mockVaultData(vaultAddress, clock)
            /\ ret' = Call("fetchVault", vaultAddress, "done")
    /\ UNCHANGED <<stacksVars, clock>>

\* fetchVault has no await: its body runs to completion within the call.
\* Nothing in the try block throws, so the catch branch is never taken.
fetchVault(vaultAddress) ==
    /\ ~cancelled
    /\ prev' = Before
    /\ IF vaultAddress = ""
       THEN /\ error' = "Vault address is required"
            /\ UNCHANGED <<vault, isLoading>>
            /\ ret' = Call("fetchVault", vaultAddress, "rejected")
       ELSE /\ isLoading' = FALSE      \* setIsLoading(true) ... finally false
            /\ error' = NULL
            /\ vault' = mockVaultData(vaultAddress, clock)
            /\ ret' = Call("fetchVault", vaultAddress, "done")
    /\ UNCHANGED <<stacksVars, clock>>

\* a read-only call that clears the error as it goes
QueryResetsError(op, arg, val) ==
    /\ ~cancelled
    /\ prev' = Before
    /\ ret' = Call(op, arg, val)
    /\ error' = NULL
    /\ UNCHANGED <<stacksVars, vault, isLoading, clock>>

\* a read-only call: it returns val and sets no state
Query(op, arg, val) ==
    /\ ~cancelled
    /\ prev' = Before
    /\ ret' = Call(op, arg, val)
    /\ UNCHANGED <<stacksVars, multisigVars, clock>>

CallIsSigner == Query("isSigner", "", isSigner)

CallGetTransaction(txId) == Query("getTransaction", txId, getTransaction(txId))

CallGetSignatureCount(txId) ==
    Query("getSignatureCount", txId, getSignatureCount(txId))

CallIsReadyToExecute(txId) ==
    Query("isReadyToExecute", txId, isReadyToExecute(txId))

CallGetPendingTransactions ==
    Query("getPendingTransactions", "", getPendingTransactions)

CallGetExecutedTransactions ==
    Query("getExecutedTransactions", "", getExecutedTransactions)

CallHasUserSigned(txId) == Query("hasUserSigned", txId, hasUserSigned(txId))

\* Date.now() advances
Tick ==
    /\ clock < MaxClock
    /\ clock' = clock + 1
    /\ UNCHANGED <<stacksVars, multisigVars, ret, prev>>

----------------------------------------------------------------------------
(* useStacks: operations *)

\* useEffect(() => { ... initializeSession(); ... }, []): the part of
\* initializeSession that runs within the effect, up to its first await
initializeSession ==
    /\ initPc = "start"
    /\ IF sessPending
       THEN \* await userSession.handlePendingSignIn()
            /\ initPc' = "awaiting"
            /\ UNCHANGED <<userData, isReady>>
       ELSE /\ initPc' = "done"
            /\ userData' = IF sessData # Null THEN sessData ELSE userData
            /\ isReady' = TRUE
    /\ ret' = Call("initializeSession", "", "")
    /\ prev' = Before
    /\ UNCHANGED <<cancelled, sessPending, sessData, connectOpen, signedOut,
                   multisigVars, clock>>

\* handlePendingSignIn resolves with data: the session now holds it
pendingSignInResolves(data) ==
    /\ initPc = "awaiting"
    /\ initPc' = "done"
    /\ sessPending' = FALSE
    /\ sessData' = data
    /\ userData' = IF ~cancelled THEN data ELSE userData
    /\ isReady' = IF ~cancelled THEN TRUE ELSE isReady
    /\ ret' = Call("pendingSignInResolves", "", "")
    /\ prev' = Before
    /\ UNCHANGED <<cancelled, connectOpen, signedOut, multisigVars, clock>>

\* a rejection whose finally block is missing
pendingSignInRejectsNoFinally ==
    /\ initPc = "awaiting"
    /\ initPc' = "done"
    /\ ret' = Call("pendingSignInRejects", "", "")
    /\ prev' = Before
    /\ UNCHANGED <<userData, isReady, cancelled, sessPending, sessData,
                   connectOpen, signedOut, multisigVars, clock>>

\* handlePendingSignIn rejects: catch logs, finally runs
pendingSignInRejects ==
    /\ initPc = "awaiting"
    /\ initPc' = "done"
    /\ isReady' = IF ~cancelled THEN TRUE ELSE isReady
    /\ ret' = Call("pendingSignInRejects", "", "")
    /\ prev' = Before
    /\ UNCHANGED <<userData, cancelled, sessPending, sessData, connectOpen,
                   signedOut, multisigVars, clock>>

\* the effect's cleanup, on unmount
unmount ==
    /\ initPc # "start"
    /\ ~cancelled
    /\ cancelled' = TRUE
    /\ ret' = Call("unmount", "", "")
    /\ prev' = Before
    /\ UNCHANGED <<userData, isReady, initPc, sessPending, sessData,
                   connectOpen, signedOut, multisigVars, clock>>

\* connect: showConnect opens the wallet dialog.  An event handler: React
\* has run the mount effect before any event is handled.
connect ==
    /\ ~cancelled
    /\ initPc # "start"
    /\ connectOpen' = TRUE
    /\ ret' = Call("connect", "", "")
    /\ prev' = Before
    /\ UNCHANGED <<userData, isReady, cancelled, initPc, sessPending,
                   sessData, signedOut, multisigVars, clock>>

\* onFinish: the wallet has stored the session; loadUserData, setUserData
onFinish(data) ==
    /\ ~cancelled
    /\ connectOpen
    /\ connectOpen' = FALSE
    /\ sessData' = data
    /\ userData' = data
    /\ signedOut' = FALSE
    /\ ret' = Call("onFinish", "", "")
    /\ prev' = Before
    /\ UNCHANGED <<isReady, cancelled, initPc, sessPending, multisigVars,
                   clock>>

onCancel ==
    /\ ~cancelled
    /\ connectOpen
    /\ connectOpen' = FALSE
    /\ ret' = Call("onCancel", "", "")
    /\ prev' = Before
    /\ UNCHANGED <<userData, isReady, cancelled, initPc, sessPending,
                   sessData, signedOut, multisigVars, clock>>

\* disconnect: signUserOut, setUserData(null)
disconnect ==
    /\ ~cancelled
    /\ initPc # "start"
    /\ sessData' = Null
    /\ userData' = Null
    /\ signedOut' = TRUE
    /\ ret' = Call("disconnect", "", "")
    /\ prev' = Before
    /\ UNCHANGED <<isReady, cancelled, initPc, sessPending, connectOpen,
                   multisigVars, clock>>

----------------------------------------------------------------------------
(* The hooks as mounted in one component *)

NoBefore == [vault |-> Null, isLoading |-> FALSE, error |-> NULL]

Init ==
    /\ userData = Null
    /\ isReady = FALSE
    /\ cancelled = FALSE
    /\ initPc = "start"
    /\ sessPending \in BOOLEAN
    /\ sessData \in Users \cup {Null}
    /\ connectOpen = FALSE
    /\ signedOut = FALSE
    /\ vault = Null
    /\ isLoading = FALSE
    /\ error = NULL
    /\ clock = 0
    /\ ret = NoCall
    /\ prev = NoBefore

Queries ==
    \/ CallIsSigner
    \/ \E txId \in TxIds : CallGetTransaction(txId)
    \/ \E txId \in TxIds : CallGetSignatureCount(txId)
    \/ \E txId \in TxIds : CallIsReadyToExecute(txId)
    \/ CallGetPendingTransactions
    \/ CallGetExecutedTransactions
    \/ \E txId \in TxIds : CallHasUserSigned(txId)

Next ==
    \/ initializeSession
    \/ \E data \in Users : pendingSignInResolves(data)
    \/ pendingSignInRejects
    \/ unmount
    \/ connect
    \/ \E data \in Users : onFinish(data)
    \/ onCancel
    \/ disconnect
    \/ \E vaultAddress \in FetchInputs : fetchVault(vaultAddress)
    \/ Queries
    \/ Tick

Spec == Init /\ [][Next]_vars

\* useStacks alone.  The mount effect runs once the component has mounted,
\* and the pending sign-in call settles: it returns or it throws.
pendingSignInSettles ==
    \/ \E data \in Users : pendingSignInResolves(data)
    \/ pendingSignInRejects

StacksNext ==
    \/ initializeSession
    \/ pendingSignInSettles
    \/ unmount
    \/ connect
    \/ \E data \in Users : onFinish(data)
    \/ onCancel
    \/ disconnect

StacksSpec ==
    /\ Init
    /\ [][StacksNext]_vars
    /\ WF_vars(initializeSession)
    /\ WF_vars(pendingSignInSettles)

----------------------------------------------------------------------------
(* The queries as pure functions of the vault and the identity: the vault   *)
(* is any MultisigVault of at most MaxTxs transactions with distinct ids,   *)
(* each with the signer snapshot <<SignerA, SignerB>> signed in any way and *)
(* in any status, under any threshold 1..3; or a placeholder vault; or      *)
(* null.  Each behaviour applies one query to the input drawn.              *)

QSigners == {<<[address |-> SignerA, hasSigned |-> a],
               [address |-> SignerB, hasSigned |-> b]>> : a, b \in BOOLEAN}

QTransaction(i, status, signers) ==
    [id |-> TxIdSeq[i], type |-> "stx-transfer", amount |-> "1000000",
     recipient |-> SignerB, txHash |-> "0x1234567890abcdef",
     status |-> status, signers |-> signers, timestamp |-> 0]

QTransactions ==
    UNION {{[i \in 1..n |-> QTransaction(i, st[i], sg[i])] :
               st \in [1..n -> TransactionStatus], sg \in [1..n -> QSigners]} :
           n \in 0..MaxTxs}

QVaults ==
    {[address |-> "SP000000000000000000002Q6VF78.vault-1",
      signers |-> <<SignerA, SignerB, SignerC>>,
      threshold |-> t, balance |-> "5000000000", transactions |-> txs] :
        t \in 1..3, txs \in QTransactions}
    \cup {mockVaultData(a, 0) : a \in VaultAddresses}
    \cup {Null}

\* identities with pairwise distinct current addresses, and no identity
QUsers == {Null, UserOf(TRUE, SignerB, ""), UserOf(TRUE, "", SignerA),
           UserOf(TRUE, Outsider, SignerA)}

QInit ==
    /\ userData \in QUsers
    /\ isReady = TRUE
    /\ cancelled = FALSE
    /\ initPc = "done"
    /\ sessPending = FALSE
    /\ sessData = userData
    /\ connectOpen = FALSE
    /\ signedOut = FALSE
    /\ vault \in QVaults
    /\ isLoading = FALSE
    /\ error = NULL
    /\ clock = 0
    /\ ret = NoCall
    /\ prev = NoBefore

\* the queries whose dependency list names userAddress, and those whose
\* dependency list names the vault only
UserQueries ==
    \/ CallIsSigner
    \/ \E txId \in TxIds : CallHasUserSigned(txId)

VaultQueries ==
    \/ \E txId \in TxIds : CallGetTransaction(txId)
    \/ \E txId \in TxIds : CallGetSignatureCount(txId)
    \/ \E txId \in TxIds : CallIsReadyToExecute(txId)
    \/ CallGetPendingTransactions
    \/ CallGetExecutedTransactions

\* one query is applied to the drawn input; a query that does not read
\* userAddress is applied under one identity of the drawn ones
QNext ==
    /\ ret = NoCall
    /\ \/ UserQueries
       \/ (userData = Null /\ VaultQueries)

QuerySpec == QInit /\ [][QNext]_vars

----------------------------------------------------------------------------
(* Properties *)

\* the number of signers of tx with hasSigned = true
SignedCount(tx) ==
    Cardinality({j \in 1..Len(tx.signers) : tx.signers[j].hasSigned})

\* the indices of the elements of seq that satisfy Keep, then the k-th
\* smallest of a set of indices
KthOf(idx, k) == CHOOSE i \in idx : Cardinality({j \in idx : j < i}) = k - 1

\* C1: with a vault loaded, for every transaction id of the vault,
\* isReadyToExecute(id) is true exactly when the number of that
\* transaction's signers with hasSigned = true is at least vault.threshold;
\* a call of isReadyToExecute returns that value.
C1_ReadyIffQuorum ==
    vault # Null =>
        \A i \in 1..Len(vault.transactions) :
            LET tx == vault.transactions[i]
            IN  /\ isReadyToExecute(tx.id) <=> (SignedCount(tx) >= vault.threshold)
                /\ (ret.op = "isReadyToExecute" /\ ret.arg = tx.id) =>
                       (ret.val <=> (SignedCount(tx) >= vault.threshold))

\* C1 witness: isReadyToExecute has returned true for a transaction whose
\* signature count equals the threshold exactly, in a vault that also holds
\* a transaction below the threshold
C1_Witness ==
    /\ vault # Null
    /\ ret.op = "isReadyToExecute"
    /\ ret.val = TRUE
    /\ \E i \in 1..Len(vault.transactions) :
           /\ vault.transactions[i].id = ret.arg
           /\ SignedCount(vault.transactions[i]) = vault.threshold
    /\ \E i \in 1..Len(vault.transactions) :
           SignedCount(vault.transactions[i]) < vault.threshold

\* C4: hasSigned is monotone over every step, a re-fetch included: a
\* (transaction id, signer address) pair that is signed in the active vault
\* is signed in the active vault after the step, whenever the pair is still
\* there.
C4_HasSignedMonotone ==
    [][(vault # Null /\ vault' # Null) =>
          \A i \in 1..Len(vault.transactions), k \in 1..Len(vault'.transactions) :
              vault.transactions[i].id = vault'.transactions[k].id =>
                  \A j \in 1..Len(vault.transactions[i].signers),
                     l \in 1..Len(vault'.transactions[k].signers) :
                      ( /\ vault.transactions[i].signers[j].address
                             = vault'.transactions[k].signers[l].address
                        /\ vault.transactions[i].signers[j].hasSigned )
                      => vault'.transactions[k].signers[l].hasSigned]_vars

\* C4 witness: a fetch has replaced a loaded vault (fetched at another time
\* or for another address) and a signer of its transaction has signed
C4_Witness ==
    /\ ret.op = "fetchVault"
    /\ ret.val = "done"
    /\ prev.vault # Null
    /\ vault # prev.vault
    /\ \E j \in 1..Len(vault.transactions[1].signers) :
           /\ vault.transactions[1].signers[j].hasSigned
           /\ prev.vault.transactions[1].signers[j].hasSigned

\* C5: every active vault has 1 <= threshold <= number of authorized signers
C5_ThresholdInRange ==
    vault # Null =>
        /\ 1 <= vault.threshold
        /\ vault.threshold
             <= Cardinality({vault.signers[i] : i \in 1..Len(vault.signers)})

\* C5 witness: a fetch has set the vault, over a vault that was loaded
C5_Witness ==
    /\ ret.op = "fetchVault"
    /\ ret.val = "done"
    /\ vault # Null
    /\ prev.vault # Null
    /\ vault.threshold = 2

\* C6 (as claimed): a fetch of the (well-formed) address of the vault that
\* is already active, nothing having changed the vault since it was fetched,
\* leaves the vault equal to what it was, field for field
C6_FetchIdempotent ==
    ( /\ ret.op = "fetchVault"
      /\ ret.val = "done"
      /\ ret.arg \in VaultAddresses
      /\ prev.vault # Null
      /\ prev.vault.address = ret.arg )
    => vault = prev.vault

\* addresses that are empty or malformed
InvalidAddresses == {"", MalformedAddress}

\* C7 (as claimed): a fetch of an empty or malformed address fails, sets the
\* error, and the active vault is never one of such an address
C7_InvalidAddressRejected ==
    /\ (ret.op = "fetchVault" /\ ret.arg \in InvalidAddresses) =>
           (ret.val = "rejected" /\ error # NULL /\ vault = prev.vault)
    /\ vault # Null => vault.address \notin InvalidAddresses

\* C8: after a fetch of a non-empty address a the vault is non-null, keyed
\* by a, holds the transaction list of the data source, the error is null
\* and isLoading is false
C8_FetchSuccessPostcondition ==
    (ret.op = "fetchVault" /\ ret.arg # "") =>
        /\ ret.val = "done"
        /\ vault # Null
        /\ vault.address = ret.arg
        /\ Len(vault.transactions) = 1
        /\ vault.transactions[1].id = "txn-001"
        /\ error = NULL
        /\ isLoading = FALSE

\* C8 witness: a fetch of a non-empty address has run from a state with an
\* error set and a vault of another address loaded
C8_Witness ==
    /\ ret.op = "fetchVault"
    /\ ret.arg # ""
    /\ prev.error # NULL
    /\ prev.vault # Null
    /\ prev.vault.address # ret.arg
    /\ vault.address = ret.arg

\* the status the signatures and the threshold derive
DerivedStatus(tx, threshold) ==
    IF SignedCount(tx) >= threshold THEN "ready-to-execute"
    ELSE IF SignedCount(tx) > 0 THEN "signed"
    ELSE "pending"

\* C9 (as claimed): every transaction of the active vault that is neither
\* executed nor failed stores the status its signers and the threshold derive
C9_StoredStatusIsDerived ==
    (vault # Null /\ vault.address \in VaultAddresses) =>
        \A i \in 1..Len(vault.transactions) :
            vault.transactions[i].status \notin {"executed", "failed"} =>
                vault.transactions[i].status
                    = DerivedStatus(vault.transactions[i], vault.threshold)

\* what C10 expects of the pending list: the transactions whose status is
\* not executed, in the order of the vault
NotExecutedIdx ==
    {i \in 1..Len(vault.transactions) : vault.transactions[i].status # "executed"}

C10_Expected ==
    [k \in 1..Cardinality(NotExecutedIdx) |->
        vault.transactions[KthOf(NotExecutedIdx, k)]]

\* C10: getPendingTransactions() is exactly the transactions of the active
\* vault whose status is not executed (failed ones included), in the vault's
\* order, and the empty list when no vault is loaded
C10_PendingIsNotExecuted ==
    /\ vault = Null => getPendingTransactions = <<>>
    /\ vault # Null => getPendingTransactions = C10_Expected
    /\ ret.op = "getPendingTransactions" =>
           ret.val = (IF vault = Null THEN <<>> ELSE C10_Expected)

\* C10 witness: getPendingTransactions has returned a list that holds a
\* failed transaction, from a vault that also holds an executed one
C10_Witness ==
    /\ ret.op = "getPendingTransactions"
    /\ vault # Null
    /\ \E k \in 1..Len(ret.val) : ret.val[k].status = "failed"
    /\ \E i \in 1..Len(vault.transactions) :
           vault.transactions[i].status = "executed"

\* the ids of the transactions of the active vault
VaultTxIds ==
    IF vault = Null THEN {}
    ELSE {vault.transactions[i].id : i \in 1..Len(vault.transactions)}

\* C11: for a transaction id that is not in the active vault, or with no
\* vault loaded, getSignatureCount(id) is 0 and isReadyToExecute(id) is
\* false, and a call of either returns that value
C11_UnknownIdIsNeutral ==
    \A txId \in TxIds \ VaultTxIds :
        /\ getSignatureCount(txId) = 0
        /\ isReadyToExecute(txId) = FALSE
        /\ (ret.op = "getSignatureCount" /\ ret.arg = txId) => ret.val = 0
        /\ (ret.op = "isReadyToExecute" /\ ret.arg = txId) => ret.val = FALSE

\* C11 witness: getSignatureCount has returned 0 for an id that is not in
\* the loaded vault, whose transactions are all signed up to the threshold
C11_Witness ==
    /\ vault # Null
    /\ ret.op = "getSignatureCount"
    /\ ret.arg \notin VaultTxIds
    /\ ret.val = 0
    /\ vault.transactions # <<>>
    /\ \A i \in 1..Len(vault.transactions) :
           SignedCount(vault.transactions[i]) >= vault.threshold

\* whether the transaction id has a signer entry of address a that has signed
HasSignedEntry(txId, a) ==
    /\ vault # Null
    /\ \E i \in 1..Len(vault.transactions) :
           /\ vault.transactions[i].id = txId
           /\ \E j \in 1..Len(vault.transactions[i].signers) :
                  /\ vault.transactions[i].signers[j].address = a
                  /\ vault.transactions[i].signers[j].hasSigned

\* C12: hasUserSigned(id) is true exactly when the current address is set
\* and the transaction id has a signer entry of that address with
\* hasSigned = true; a call of hasUserSigned returns that value
C12_HasUserSigned ==
    \A txId \in TxIds :
        /\ hasUserSigned(txId) <=> (address # NULL /\ HasSignedEntry(txId, address))
        /\ (ret.op = "hasUserSigned" /\ ret.arg = txId) =>
               (ret.val <=> (address # NULL /\ HasSignedEntry(txId, address)))

\* C12 witness: hasUserSigned has returned true for the current address,
\* in a vault where that address has not signed another transaction
C12_Witness ==
    /\ ret.op = "hasUserSigned"
    /\ ret.val = TRUE
    /\ address # NULL
    /\ \E txId \in VaultTxIds \ {ret.arg} : ~HasSignedEntry(txId, address)

\* C13: isSigner is true exactly when a vault is loaded, the current address
\* is non-null and the address is one of the vault's signers
C13_IsSigner ==
    /\ isSigner <=> ( /\ vault # Null
                      /\ address # NULL
                      /\ \E i \in 1..Len(vault.signers) : vault.signers[i] = address )
    /\ address = NULL => ~isSigner
    /\ ret.op = "isSigner" =>
           (ret.val <=> ( /\ vault # Null
                          /\ address # NULL
                          /\ address \in {vault.signers[i] : i \in 1..Len(vault.signers)} ))

\* C13 witness: isSigner has returned true for a connected signer
C13_Witness ==
    /\ ret.op = "isSigner"
    /\ ret.val = TRUE
    /\ vault # Null
    /\ address = SignerB

\* the names of the query operations
QueryOps == {"getTransaction", "getPendingTransactions",
             "getExecutedTransactions", "getSignatureCount",
             "isReadyToExecute", "hasUserSigned", "isSigner"}

\* C14: a query leaves the vault (its transactions and signers with it),
\* isLoading and error as they were before the call
C14_QueriesHaveNoEffect ==
    ret.op \in QueryOps =>
        /\ vault = prev.vault
        /\ isLoading = prev.isLoading
        /\ error = prev.error

\* C14 witness: a query has been called with a vault loaded and an error set
C14_Witness ==
    /\ ret.op \in QueryOps
    /\ vault # Null
    /\ error # NULL
    /\ prev.error # NULL

\* the addresses of a signer list
SnapshotOf(signers) == {signers[j].address : j \in 1..Len(signers)}

\* C15: the addresses of every transaction's signers are the vault's
\* authorized signers, and no step changes the addresses of the signers of
\* a transaction id that stays in the active vault
C15_SnapshotIsSignerSet ==
    /\ [](vault # Null =>
            \A i \in 1..Len(vault.transactions) :
                SnapshotOf(vault.transactions[i].signers)
                    = {vault.signers[j] : j \in 1..Len(vault.signers)})
    /\ [][(vault # Null /\ vault' # Null) =>
            \A i \in 1..Len(vault.transactions),
               k \in 1..Len(vault'.transactions) :
                vault.transactions[i].id = vault'.transactions[k].id =>
                    SnapshotOf(vault.transactions[i].signers)
                        = SnapshotOf(vault'.transactions[k].signers)]_vars

\* C15 witness: a fetch of another address has replaced a loaded vault and
\* the transaction carries the three signers
C15_Witness ==
    /\ ret.op = "fetchVault"
    /\ prev.vault # Null
    /\ vault # Null
    /\ vault.address # prev.vault.address
    /\ Cardinality(SnapshotOf(vault.transactions[1].signers)) = 3

\* C16: the current address is the testnet address when the user data holds
\* a non-empty one, else the mainnet address when that is non-empty, else
\* null (also with no user data or no stxAddress)
C16_AddressPrefersTestnet ==
    /\ (userData # Null /\ userData.stx /\ userData.testnet # "")
           => address = userData.testnet
    /\ (userData # Null /\ userData.stx /\ userData.testnet = ""
            /\ userData.mainnet # "")
           => address = userData.mainnet
    /\ (userData # Null /\ userData.stx /\ userData.testnet = ""
            /\ userData.mainnet = "")
           => address = NULL
    /\ (userData # Null /\ ~userData.stx) => address = NULL
    /\ userData = Null => address = NULL

\* C16 witness: a connect flow has finished with user data that holds both
\* addresses, and the current address is the testnet one
C16_Witness ==
    /\ ret.op = "onFinish"
    /\ userData # Null
    /\ userData.testnet # ""
    /\ userData.mainnet # ""
    /\ address = userData.testnet
    /\ address # userData.mainnet

\* C17: address is null exactly when network is "disconnected"; on
\* "testnet" the address is the testnet address, on "mainnet" the mainnet
\* address
C17_AddressMatchesNetwork ==
    /\ (address = NULL) <=> (network = "disconnected")
    /\ network = "testnet" => address = userData.testnet
    /\ network = "mainnet" => address = userData.mainnet

\* C17 witness: a pending sign-in has resolved to a mainnet-only identity
C17_Witness ==
    /\ ret.op = "pendingSignInResolves"
    /\ network = "mainnet"
    /\ address = SignerA

\* C18 (as claimed): once disconnect has been called, and until a connect
\* flow finishes, userData is null and isSignedIn is false
C18_DisconnectHolds ==
    signedOut => (userData = Null /\ ~isSignedIn)

\* C19: isReady becomes true unless the hook is unmounted, also when the
\* pending sign-in throws; once true it stays true; and an initialization
\* that completes after the unmount sets neither userData nor isReady
C19_IsReadyEventuallyAndForGood ==
    /\ <>(isReady \/ cancelled)
    /\ [][isReady => isReady']_vars
    /\ [][(cancelled /\ initPc = "awaiting" /\ initPc' = "done") =>
            (userData' = userData /\ isReady' = isReady)]_vars

\* C19 witness: the pending sign-in has thrown and isReady is true
C19_Witness ==
    /\ ret.op = "pendingSignInRejects"
    /\ ~cancelled
    /\ isReady

\* C20: a fetch of the empty address sets error to a message and leaves the
\* vault and isLoading as they were
C20_EmptyFetchKeepsVault ==
    (ret.op = "fetchVault" /\ ret.arg = "") =>
        /\ ret.val = "rejected"
        /\ error # NULL
        /\ vault = prev.vault
        /\ isLoading = prev.isLoading

\* C20 witness: a fetch of the empty address has run with a vault loaded
\* and no error set
C20_Witness ==
    /\ ret.op = "fetchVault"
    /\ ret.arg = ""
    /\ prev.vault # Null
    /\ prev.error = NULL
    /\ vault # Null

\* the positions of the active vault's transactions whose status is executed,
\* and the transactions at a set of positions in the vault's order
ExecutedIdx ==
    {i \in 1..Len(vault.transactions) : vault.transactions[i].status = "executed"}

TxsAt(idx) ==
    [k \in 1..Cardinality(idx) |-> vault.transactions[KthOf(idx, k)]]

\* C21: getPendingTransactions() and getExecutedTransactions() partition the
\* active vault's transaction list: the executed list is exactly the
\* transactions with status = executed, the pending list is exactly the
\* others, both in the vault's order, so that every transaction is in exactly
\* one of the two; with no vault loaded both are empty; a call of
\* getExecutedTransactions returns that executed list
C21_PendingExecutedPartition ==
    /\ vault = Null =>
           (getPendingTransactions = <<>> /\ getExecutedTransactions = <<>>)
    /\ vault # Null =>
           LET all == 1..Len(vault.transactions)
               pending == getPendingTransactions
               executed == getExecutedTransactions
           IN  /\ executed = TxsAt(ExecutedIdx)
               /\ pending = TxsAt(all \ ExecutedIdx)
               /\ Len(pending) + Len(executed) = Len(vault.transactions)
               /\ \A i \in all :
                      Includes(pending, vault.transactions[i])
                          # Includes(executed, vault.transactions[i])
               /\ \A k \in 1..Len(executed) : executed[k].status = "executed"
    /\ ret.op = "getExecutedTransactions" =>
           ret.val = (IF vault = Null THEN <<>> ELSE TxsAt(ExecutedIdx))

\* C21 witness: getExecutedTransactions has returned a non-empty list from a
\* vault that also holds a failed transaction, which the pending list holds
C21_Witness ==
    /\ ret.op = "getExecutedTransactions"
    /\ vault # Null
    /\ ret.val # <<>>
    /\ \E k \in 1..Len(getPendingTransactions) :
           getPendingTransactions[k].status = "failed"

=============================================================================
